---- MODULE Spec2Model ----
(***************************************************************************)
(* TTID: typed, sortable identifiers packed into a UUIDv8 bit layout.      *)
(*                                                                         *)
(* Representation of the Rust values:                                      *)
(*   - u64 / u128 values are bit vectors: the set of the positions of      *)
(*     their 1 bits (bit 0 is the least significant).  Their width is the  *)
(*     width of the Rust type, so casts and shifts lose the same bits.     *)
(*   - u8 / u16 values are naturals.                                       *)
(*   - a Uuid is its [u8; 16] array: a sequence of 16 naturals below 256,  *)
(*     element k+1 of the sequence being bytes[k].                         *)
(*   - a &str is the sequence of its characters.                           *)
(*   - Result / Option values are records with a tag.                      *)
(***************************************************************************)
EXTENDS Integers, Sequences, FiniteSets, TLC

(***************************************************************************)
(* Bounds of the inputs the model draws.                                   *)
(***************************************************************************)
\* timestamps are drawn at distance 0..MaxTsDelta from 0, 2^48-1 and 2^48
MaxTsDelta == 1
\* randomness is drawn at distance 0..MaxRandDelta from 0, 2^58-1 and 2^58
MaxRandDelta == 1

(***************************************************************************)
(* Integer primitives of the language, on bit vectors.                     *)
(***************************************************************************)
\* `n as u64` / `n as u128` for a value n of a narrow unsigned type
Widen(n) == {i \in 0..30 : (n \div 2^i) % 2 = 1}

\* `x as u16` / `x as u64`: keep the low w bits
Narrow(x, w) == {i \in x : i < w}

\* the natural a bit vector of at most 16 bits stands for
RECURSIVE ToNat(_)
ToNat(x) ==
    IF x = {} THEN 0
    ELSE LET i == CHOOSE j \in x : TRUE IN 2^i + ToNat(x \ {i})

\* x << k in a type of w bits
Shl(x, k, w) == {i + k : i \in {j \in x : j + k < w}}

\* x >> k
Shr(x, k) == {i - k : i \in {j \in x : j >= k}}

\* x > y, unsigned
Gt(x, y) == \E i \in x \ y : \A j \in y \ x : j < i

(***************************************************************************)
(* src/deser.rs                                                            *)
(***************************************************************************)
TIMESTAMP_BITS == 48
TYPE_BITS == 16
RANDOM_BITS == 58

\* (1u64 << TIMESTAMP_BITS) - 1
TIMESTAMP_MAX == 0..(TIMESTAMP_BITS - 1)
\* u16::MAX
TYPE_ID_MAX == 65535
\* (1u64 << RANDOM_BITS) - 1
RANDOM_MASK == 0..(RANDOM_BITS - 1)

PAYLOAD_BITS == TIMESTAMP_BITS + TYPE_BITS + RANDOM_BITS

is_fixed_uuid_bit(bit_pos) == bit_pos \in {79, 78, 77, 76, 63, 62}

set_bit(bytes, bit_pos, value) ==
    LET byte_idx == 15 - (bit_pos \div 8)
        bit_idx == bit_pos % 8
        old == (bytes[byte_idx + 1] \div 2^bit_idx) % 2
    IN IF value = 0
       THEN [bytes EXCEPT ![byte_idx + 1] = @ - old * 2^bit_idx]
       ELSE [bytes EXCEPT ![byte_idx + 1] = @ + (1 - old) * 2^bit_idx]

get_bit(bytes, bit_pos) ==
    LET byte_idx == 15 - (bit_pos \div 8)
        bit_idx == bit_pos % 8
    IN (bytes[byte_idx + 1] \div 2^bit_idx) % 2

\* one iteration of the loop of encode_payload_to_uuid; st is the loop's
\* state: the bytes written so far and payload_bit_idx
EncodeStep(payload, st, uuid_bit_pos) ==
    IF is_fixed_uuid_bit(uuid_bit_pos) THEN st
    ELSE LET bit == IF st.payload_bit_idx \in payload THEN 1 ELSE 0
         IN [bytes |-> set_bit(st.bytes, uuid_bit_pos, bit),
             payload_bit_idx |-> st.payload_bit_idx - 1]

\* the iterations for uuid_bit_pos = hi, hi - 1, ..., lo, in that order: the
\* upper half of the range, then the lower half from the state it leaves
RECURSIVE EncodeLoop(_, _, _, _)
EncodeLoop(payload, st, hi, lo) ==
    IF hi = lo THEN EncodeStep(payload, st, hi)
    ELSE LET mid == (hi + lo) \div 2
         IN CHOOSE r \in {EncodeLoop(payload, s, mid, lo) :
                          s \in {EncodeLoop(payload, st, hi, mid + 1)}} : TRUE

\* encode_payload_to_uuid leaving the version field as the loop left it
encode_payload_to_uuid_no_version(payload) ==
    LET st == EncodeLoop(payload,
                         [bytes |-> [k \in 1..16 |-> 0],
                          payload_bit_idx |-> PAYLOAD_BITS - 1],
                         127, 0)
        b5 == set_bit(st.bytes, 63, 1)
    IN set_bit(b5, 62, 0)

encode_payload_to_uuid(payload) ==
    LET st == EncodeLoop(payload,
                         [bytes |-> [k \in 1..16 |-> 0],
                          payload_bit_idx |-> PAYLOAD_BITS - 1],
                         127, 0)
        b1 == set_bit(st.bytes, 79, 1)
        b2 == set_bit(b1, 78, 0)
        b3 == set_bit(b2, 77, 0)
        b4 == set_bit(b3, 76, 0)
        b5 == set_bit(b4, 63, 1)
    IN set_bit(b5, 62, 0)

\* is_valid_ttid_uuid checking the version only
is_valid_ttid_uuid_version_only(bytes) == (bytes[6 + 1] \div 16) = 8

is_valid_ttid_uuid(bytes) ==
    LET version_ok == (bytes[6 + 1] \div 16) = 8
        variant_ok == (bytes[8 + 1] \div 64) * 64 = 128
    IN version_ok /\ variant_ok

\* DecodeStep reading the reserved positions as payload
DecodeStep_noskip(bytes, payload, uuid_bit_pos) ==
    Shl(payload, 1, 128) \cup Widen(get_bit(bytes, uuid_bit_pos))

\* one iteration of the loop of decode_payload_from_uuid
DecodeStep(bytes, payload, uuid_bit_pos) ==
    IF is_fixed_uuid_bit(uuid_bit_pos) THEN payload
    ELSE Shl(payload, 1, 128) \cup Widen(get_bit(bytes, uuid_bit_pos))

\* the iterations for uuid_bit_pos = hi, hi - 1, ..., lo, in that order
RECURSIVE DecodeLoop(_, _, _, _)
DecodeLoop(bytes, payload, hi, lo) ==
    IF hi = lo THEN DecodeStep(bytes, payload, hi)
    ELSE LET mid == (hi + lo) \div 2
         IN CHOOSE r \in {DecodeLoop(bytes, p, mid, lo) :
                          p \in {DecodeLoop(bytes, payload, hi, mid + 1)}} : TRUE

None == [tag |-> "None"]
Some(v) == [tag |-> "Some", val |-> v]

decode_payload_from_uuid(uuid) ==
    IF ~is_valid_ttid_uuid(uuid) THEN None
    ELSE Some(DecodeLoop(uuid, {}, 127, 0))

(***************************************************************************)
(* The type domains: the IdType implementations of the crate's tests.      *)
(***************************************************************************)
Domains == {"MyType", "NarrowType"}

\* An implementation of IdType a caller may also write: to_type_id is total and
\* injective, from_type_id knows the id of Live only
RetiredDomain == "RetiredType"

AdmittedDomains == Domains \cup {RetiredDomain}

Variants(T) ==
    IF T = "MyType" THEN {"User", "Org", "Session", "Max"}
    ELSE IF T = RetiredDomain THEN {"Live", "Retired"}
    ELSE {"User"}

to_type_id(T, ty) ==
    IF T = "MyType"
    THEN CASE ty = "User" -> 1
           [] ty = "Org" -> 2
           [] ty = "Session" -> 777
           [] ty = "Max" -> TYPE_ID_MAX
    ELSE IF T = RetiredDomain
    THEN CASE ty = "Live" -> 1
           [] ty = "Retired" -> 3
    ELSE 1

from_type_id(T, id) ==
    IF T = "MyType"
    THEN CASE id = 1 -> Some("User")
           [] id = 2 -> Some("Org")
           [] id = 777 -> Some("Session")
           [] id = TYPE_ID_MAX -> Some("Max")
           [] OTHER -> None
    ELSE IF T = RetiredDomain
    THEN IF id = 1 THEN Some("Live") ELSE None
    ELSE IF id = 1 THEN Some("User") ELSE None

as_type_name(T, ty) ==
    IF T = "MyType"
    THEN CASE ty = "User" -> <<"u", "s", "e", "r">>
           [] ty = "Org" -> <<"o", "r", "g">>
           [] ty = "Session" -> <<"s", "e", "s", "s", "i", "o", "n">>
           [] ty = "Max" -> <<"m", "a", "x">>
    ELSE IF T = RetiredDomain
    THEN CASE ty = "Live" -> <<"l", "i", "v", "e">>
           [] ty = "Retired" -> <<"r", "e", "t", "i", "r", "e", "d">>
    ELSE <<"u", "s", "e", "r">>

from_type_name(T, name) ==
    IF T = "MyType"
    THEN CASE name = <<"u", "s", "e", "r">> -> Some("User")
           [] name = <<"o", "r", "g">> -> Some("Org")
           [] name = <<"s", "e", "s", "s", "i", "o", "n">> -> Some("Session")
           [] name = <<"m", "a", "x">> -> Some("Max")
           [] OTHER -> None
    ELSE IF T = RetiredDomain
    THEN CASE name = <<"l", "i", "v", "e">> -> Some("Live")
           [] name = <<"r", "e", "t", "i", "r", "e", "d">> -> Some("Retired")
           [] OTHER -> None
    ELSE IF name = <<"u", "s", "e", "r">> THEN Some("User") ELSE None

(***************************************************************************)
(* src/lib.rs: Ttid<T>.  A Ttid is its uuid; T is a parameter.             *)
(***************************************************************************)
Ok(v) == [tag |-> "Ok", val |-> v]
Err(e) == [tag |-> "Err", err |-> e]

TimestampOutOfRange == [kind |-> "TimestampOutOfRange"]
InvalidUuid == [kind |-> "InvalidUuid"]
UnknownTypeId(id) == [kind |-> "UnknownTypeId", id |-> id]

\* from_parts packing the type id above the timestamp
from_parts_type_first(T, timestamp_ms, ty, randomness) ==
    LET type_id == to_type_id(T, ty) IN
    IF Gt(timestamp_ms, TIMESTAMP_MAX) THEN Err(TimestampOutOfRange)
    ELSE LET payload == Shl(Widen(type_id), TIMESTAMP_BITS + RANDOM_BITS, 128)
                        \cup Shl(timestamp_ms, RANDOM_BITS, 128)
                        \cup (randomness \cap RANDOM_MASK)
         IN Ok(encode_payload_to_uuid(payload))

\* from_parts rejecting TIMESTAMP_MAX itself
from_parts_ge(T, timestamp_ms, ty, randomness) ==
    LET type_id == to_type_id(T, ty) IN
    IF Gt(timestamp_ms, TIMESTAMP_MAX) \/ timestamp_ms = TIMESTAMP_MAX
    THEN Err(TimestampOutOfRange)
    ELSE LET payload == Shl(timestamp_ms, TYPE_BITS + RANDOM_BITS, 128)
                        \cup Shl(Widen(type_id), RANDOM_BITS, 128)
                        \cup (randomness \cap RANDOM_MASK)
         IN Ok(encode_payload_to_uuid(payload))

\* from_parts without the mask on randomness
from_parts_nomask(T, timestamp_ms, ty, randomness) ==
    LET type_id == to_type_id(T, ty) IN
    IF Gt(timestamp_ms, TIMESTAMP_MAX) THEN Err(TimestampOutOfRange)
    ELSE LET payload == Shl(timestamp_ms, TYPE_BITS + RANDOM_BITS, 128)
                        \cup Shl(Widen(type_id), RANDOM_BITS, 128)
                        \cup randomness
         IN Ok(encode_payload_to_uuid(payload))

from_parts(T, timestamp_ms, ty, randomness) ==
    LET type_id == to_type_id(T, ty) IN
    IF Gt(timestamp_ms, TIMESTAMP_MAX) THEN Err(TimestampOutOfRange)
    ELSE LET payload == Shl(timestamp_ms, TYPE_BITS + RANDOM_BITS, 128)
                        \cup Shl(Widen(type_id), RANDOM_BITS, 128)
                        \cup (randomness \cap RANDOM_MASK)
         IN Ok(encode_payload_to_uuid(payload))

\* from_uuid keeping the low byte of the type field only
from_uuid_low_byte(T, uuid) ==
    LET decoded == decode_payload_from_uuid(uuid) IN
    IF decoded.tag = "None" THEN Err(InvalidUuid)
    ELSE LET type_id == ToNat(Narrow(Shr(decoded.val, RANDOM_BITS) \cap Widen(255), 16))
         IN IF from_type_id(T, type_id).tag = "None" THEN Err(UnknownTypeId(type_id))
            ELSE Ok(uuid)

from_uuid(T, uuid) ==
    LET decoded == decode_payload_from_uuid(uuid) IN
    IF decoded.tag = "None" THEN Err(InvalidUuid)
    ELSE LET type_id == ToNat(Narrow(Shr(decoded.val, RANDOM_BITS) \cap Widen(TYPE_ID_MAX), 16))
         IN IF from_type_id(T, type_id).tag = "None" THEN Err(UnknownTypeId(type_id))
            ELSE Ok(uuid)

\* impl TryFrom<Uuid> for Ttid<T>
try_from(T, value) == from_uuid(T, value)

\* a call either returns a value or panics (a failed expect)
Returns(v) == [tag |-> "Returns", val |-> v]
Panic == [tag |-> "Panic"]

timestamp_ms(uuid) ==
    LET decoded == decode_payload_from_uuid(uuid) IN
    IF decoded.tag = "None" THEN Panic
    ELSE Returns(Narrow(Shr(decoded.val, TYPE_BITS + RANDOM_BITS), 64))

type_id(uuid) ==
    LET decoded == decode_payload_from_uuid(uuid) IN
    IF decoded.tag = "None" THEN Panic
    ELSE Returns(ToNat(Narrow(Shr(decoded.val, RANDOM_BITS) \cap Widen(TYPE_ID_MAX), 16)))

id_type(T, uuid) ==
    LET id == type_id(uuid) IN
    IF id.tag = "Panic" THEN Panic
    ELSE LET ty == from_type_id(T, id.val)
         IN IF ty.tag = "None" THEN Panic ELSE Returns(ty.val)

randomness(uuid) ==
    LET decoded == decode_payload_from_uuid(uuid) IN
    IF decoded.tag = "None" THEN Panic
    ELSE Returns(Narrow(decoded.val, 64) \cap RANDOM_MASK)

\* #[derive(PartialOrd, Ord)] on Ttid: the order of the uuids, which is the
\* lexicographic order of their bytes
RECURSIVE CmpFrom(_, _, _)
CmpFrom(x, y, k) ==
    IF k > 16 THEN "Equal"
    ELSE IF x[k] < y[k] THEN "Less"
    ELSE IF x[k] > y[k] THEN "Greater"
    ELSE CmpFrom(x, y, k + 1)

cmp(x, y) == CmpFrom(x, y, 1)

(***************************************************************************)
(* The compact-text codec (crate short-uuid, default alphabet): a uuid is  *)
(* written as the 22 base-58 digits of its 128-bit value, most significant *)
(* digit first.                                                            *)
(***************************************************************************)
ShortLen == 22

FLICKR_BASE_58 ==
    <<"1", "2", "3", "4", "5", "6", "7", "8", "9", "a", "b", "c", "d",
      "e", "f", "g", "h", "i", "j", "k", "m", "n", "o", "p", "q", "r",
      "s", "t", "u", "v", "w", "x", "y", "z", "A", "B", "C", "D", "E",
      "F", "G", "H", "J", "K", "L", "M", "N", "P", "Q", "R", "S", "T",
      "U", "V", "W", "X", "Y", "Z">>

\* the division of the big-endian number bytes[k..16], with rem carried in,
\* by 58: quotient bytes appended to q
RECURSIVE DivMod58(_, _, _, _)
DivMod58(bytes, k, q, rem) ==
    IF k > 16 THEN [q |-> q, rem |-> rem]
    ELSE LET cur == rem * 256 + bytes[k]
         IN DivMod58(bytes, k + 1, Append(q, cur \div 58), cur % 58)

\* the n least significant base-58 digits of bytes, most significant first
RECURSIVE ToBase58(_, _)
ToBase58(bytes, n) ==
    IF n = 0 THEN <<>>
    ELSE CHOOSE r \in {Append(ToBase58(d.q, n - 1), FLICKR_BASE_58[d.rem + 1]) :
                       d \in {DivMod58(bytes, 1, <<>>, 0)}} : TRUE

\* ShortUuid::from_uuid followed by its Display
short_uuid(uuid) == ToBase58(uuid, ShortLen)

DigitOf(c) == CHOOSE d \in 0..57 : FLICKR_BASE_58[d + 1] = c

\* bytes * 58 + carry, from byte k down to byte 1; carry is what is left over
RECURSIVE MulAdd58(_, _, _)
MulAdd58(bytes, k, carry) ==
    IF k < 1 THEN [bytes |-> bytes, carry |-> carry]
    ELSE LET cur == bytes[k] * 58 + carry
         IN MulAdd58([bytes EXCEPT ![k] = cur % 256], k - 1, cur \div 256)

\* the value of the digits str[k..], continuing from acc; None on overflow of
\* 128 bits
RECURSIVE FromBase58(_, _, _)
FromBase58(str, k, acc) ==
    IF k > Len(str) THEN Some(acc)
    ELSE LET m == MulAdd58(acc, 16, DigitOf(str[k]))
         IN IF m.carry # 0 THEN None ELSE FromBase58(str, k + 1, m.bytes)

\* ShortUuid::parse_str followed by to_uuid
parse_str(short) ==
    IF Len(short) # ShortLen THEN None
    ELSE IF \E k \in 1..Len(short) : \A d \in 1..58 : FLICKR_BASE_58[d] # short[k]
         THEN None
    ELSE FromBase58(short, 1, [k \in 1..16 |-> 0])

(***************************************************************************)
(* src/lib.rs: Display and FromStr; src/error.rs: ParseTtidError.          *)
(***************************************************************************)
InvalidFormat == [kind |-> "InvalidFormat"]
UnknownTypeName == [kind |-> "UnknownTypeName"]
InvalidShortUuid == [kind |-> "InvalidShortUuid"]
TypeMismatch == [kind |-> "TypeMismatch"]
\* impl From<TtidError> for ParseTtidError
Ttid(err) == [kind |-> "Ttid", err |-> err]

\* fmt writing another separator
fmt_dash(T, uuid) ==
    LET ty == id_type(T, uuid) IN
    IF ty.tag = "Panic" THEN Panic
    ELSE Returns(as_type_name(T, ty.val) \o <<"-">> \o short_uuid(uuid))

\* to_string(): <type-name>_<shortuuid>
fmt(T, uuid) ==
    LET ty == id_type(T, uuid) IN
    IF ty.tag = "Panic" THEN Panic
    ELSE Returns(as_type_name(T, ty.val) \o <<"_">> \o short_uuid(uuid))

\* split_once splitting at the last occurrence of delim
split_once_last(s, delim) ==
    IF \A k \in 1..Len(s) : s[k] # delim THEN None
    ELSE LET i == CHOOSE k \in 1..Len(s) :
                      s[k] = delim /\ \A j \in (k + 1)..Len(s) : s[j] # delim
         IN Some(<<SubSeq(s, 1, i - 1), SubSeq(s, i + 1, Len(s))>>)

\* str::split_once: the parts around the first occurrence of delim
split_once(s, delim) ==
    IF \A k \in 1..Len(s) : s[k] # delim THEN None
    ELSE LET i == CHOOSE k \in 1..Len(s) :
                      s[k] = delim /\ \A j \in 1..(k - 1) : s[j] # delim
         IN Some(<<SubSeq(s, 1, i - 1), SubSeq(s, i + 1, Len(s))>>)

\* from_str without the comparison of the two types
from_str_nocheck(T, s) ==
    LET parts == split_once(s, "_") IN
    IF parts.tag = "None" THEN Err(InvalidFormat)
    ELSE
    LET parsed_type == from_type_name(T, parts.val[1]) IN
    IF parsed_type.tag = "None" THEN Err(UnknownTypeName)
    ELSE
    LET short == parse_str(parts.val[2]) IN
    IF short.tag = "None" THEN Err(InvalidShortUuid)
    ELSE
    LET ttid == from_uuid(T, short.val) IN
    IF ttid.tag = "Err" THEN Err(Ttid(ttid.err)) ELSE Ok(ttid.val)

from_str(T, s) ==
    LET parts == split_once(s, "_") IN
    IF parts.tag = "None" THEN Err(InvalidFormat)
    ELSE
    LET type_name == parts.val[1]
        parsed_type == from_type_name(T, type_name)
    IN
    IF parsed_type.tag = "None" THEN Err(UnknownTypeName)
    ELSE
    LET short == parse_str(parts.val[2]) IN
    IF short.tag = "None" THEN Err(InvalidShortUuid)
    ELSE
    LET ttid == from_uuid(T, short.val) IN
    IF ttid.tag = "Err" THEN Err(Ttid(ttid.err))
    ELSE
    LET ty == id_type(T, ttid.val) IN
    IF ty.tag = "Panic" THEN Panic
    ELSE IF to_type_id(T, ty.val) # to_type_id(T, parsed_type.val)
         THEN Err(TypeMismatch)
         ELSE Ok(ttid.val)

(***************************************************************************)
(* Ttid::new: the clock and the random source are inputs.                  *)
(***************************************************************************)
\* now_ms is `as_millis() as u64` of the clock's u128 reading; random_bits is
\* `Uuid::new_v4().as_u128() as u64 & RANDOM_MASK`
new(T, ty, clock_ms, v4) ==
    LET now_ms == Narrow(clock_ms, 64)
        random_bits == Narrow(v4, 64) \cap RANDOM_MASK
    IN from_parts(T, now_ms, ty, random_bits)

(***************************************************************************)
(* Inputs.                                                                 *)
(***************************************************************************)
\* u64 timestamps around 0, TIMESTAMP_MAX and TIMESTAMP_MAX + 1, and u64::MAX
TimestampInputs ==
    UNION {{Widen(k), TIMESTAMP_MAX \ Widen(k), {TIMESTAMP_BITS} \cup Widen(k)}
           : k \in 0..MaxTsDelta}
    \cup {0..63}

\* u64 randomness around 0, RANDOM_MASK and RANDOM_MASK + 1, and u64::MAX
RandomInputs ==
    UNION {{Widen(k), RANDOM_MASK \ Widen(k), {RANDOM_BITS} \cup Widen(k)}
           : k \in 0..MaxRandDelta}
    \cup {0..63}

\* u128 clock readings in milliseconds: a small one, the largest that fits the
\* timestamp field, the first that does not, and 2^64 and 2^64 + 1
ClockInputs == {Widen(1), TIMESTAMP_MAX, {TIMESTAMP_BITS}, {64}, {64, 0}}

\* version 4 uuids as u128: random bits around the version (0100) and the
\* variant (10) fields
V4Inputs == {(r \ {79, 77, 76, 62}) \cup {78, 63} : r \in {{0, 57, 58}, 0..127}}

\* uuids no constructor made: the nil uuid, the all-ones uuid, a version 4
\* uuid, and the version 8 uuid whose other bits are 0
RawUuids ==
    {[k \in 1..16 |-> 0], [k \in 1..16 |-> 255],
     [k \in 1..16 |-> IF k = 7 THEN 64 ELSE IF k = 9 THEN 128 ELSE 17],
     [k \in 1..16 |-> IF k \in {7, 9} THEN 128 ELSE 0]}

\* the bits the corrupted copies of an identifier's uuid differ in
CorruptBits == {79, 78, 77, 76, 63, 62}

flip_bit(bytes, bit_pos) == set_bit(bytes, bit_pos, 1 - get_bit(bytes, bit_pos))

\* text before the separator: the type names, and names no domain knows
Heads ==
    {as_type_name("MyType", ty) : ty \in Variants("MyType")}
    \cup {<<"n", "o", "p", "e">>,
          <<"d", "o", "e", "s", "_", "n", "o", "t", "_", "e", "x", "i", "s", "t">>,
          <<"u", "s", "e", "r", "_", "x">>}

\* text after the separator that is no compact text: too short and with
\* characters outside the alphabet, 22 characters outside the alphabet, and 22
\* digits above 2^128 - 1
BadTails ==
    {<<"n", "o", "t", "-", "a", "-", "s", "h", "o", "r", "t", "-", "u", "u", "i", "d">>,
     [k \in 1..ShortLen |-> "0"],
     [k \in 1..ShortLen |-> "Z"]}

(***************************************************************************)
(* State: a program that constructs an identifier (a) and then reads its    *)
(* fields (got), or renders it (text) and parses a text (out), or wraps a  *)
(* uuid (out), or constructs a second identifier (b) to compare the two.   *)
(***************************************************************************)
VARIABLES
    a,      \* the first constructor call: its arguments and its result
    b,      \* a second from_parts call, for the ordering of two identifiers
    got,    \* the results of a's accessors, once called
    text,   \* the result of a.to_string(), once called
    out     \* the from_uuid / try_from / from_str call: its arguments and its result

vars == <<a, b, got, text, out>>

NoCall == [op |-> "none"]

Init ==
    /\ a = NoCall
    /\ b = NoCall
    /\ got = NoCall
    /\ text = NoCall
    /\ out = NoCall

PartsCall(T, ts, ty, r) ==
    [op |-> "from_parts", T |-> T, timestamp_ms |-> ts, ty |-> ty,
     randomness |-> r, res |-> from_parts(T, ts, ty, r)]

\* Ttid::<T>::from_parts(ts, ty, r)
FromParts ==
    /\ a.op = "none"
    /\ \E T \in Domains : \E ty \in Variants(T) :
       \E ts \in TimestampInputs : \E r \in RandomInputs :
          a' = PartsCall(T, ts, ty, r)
    /\ UNCHANGED <<b, got, text, out>>

\* Ttid::<T>::new(ty), the clock reading clock_ms and the random uuid v4
New ==
    /\ a.op = "none"
    /\ \E T \in Domains : \E ty \in Variants(T) :
       \E clock_ms \in ClockInputs : \E v4 \in V4Inputs :
          a' = [op |-> "new", T |-> T, clock_ms |-> clock_ms, ty |-> ty,
                v4 |-> v4, res |-> new(T, ty, clock_ms, v4)]
    /\ UNCHANGED <<b, got, text, out>>

Constructed(call) == call.op # "none" /\ call.res.tag = "Ok"

\* a.as_uuid(), a.timestamp_ms(), a.type_id(), a.id_type(), a.randomness()
Read ==
    /\ Constructed(a)
    /\ b.op = "none" /\ got.op = "none" /\ text.op = "none" /\ out.op = "none"
    /\ got' = [op |-> "read",
               as_uuid |-> a.res.val,
               timestamp_ms |-> timestamp_ms(a.res.val),
               type_id |-> type_id(a.res.val),
               id_type |-> id_type(a.T, a.res.val),
               randomness |-> randomness(a.res.val)]
    /\ UNCHANGED <<a, b, text, out>>

\* a.to_string()
Display ==
    /\ Constructed(a)
    /\ b.op = "none" /\ got.op = "none" /\ text.op = "none" /\ out.op = "none"
    /\ text' = [op |-> "to_string", res |-> fmt(a.T, a.res.val)]
    /\ UNCHANGED <<a, b, got, out>>

\* the uuids handed to from_uuid: a's own, its copies with one reserved bit
\* flipped, and uuids that are no TTID
UuidInputs ==
    RawUuids \cup
    (IF Constructed(a)
     THEN {a.res.val} \cup {flip_bit(a.res.val, p) : p \in CorruptBits}
     ELSE {})

\* Ttid::<T>::from_uuid(uuid)
FromUuid ==
    /\ a.op # "none" /\ b.op = "none" /\ got.op = "none" /\ text.op = "none" /\ out.op = "none"
    /\ \E T \in Domains : \E uuid \in UuidInputs :
          out' = [op |-> "from_uuid", T |-> T, uuid |-> uuid,
                  res |-> from_uuid(T, uuid)]
    /\ UNCHANGED <<a, b, got, text>>

\* Ttid::<T>::try_from(Uuid::from(a))
TryFrom ==
    /\ Constructed(a) /\ b.op = "none" /\ got.op = "none" /\ text.op = "none" /\ out.op = "none"
    /\ \E T \in Domains :
          out' = [op |-> "try_from", T |-> T, uuid |-> a.res.val,
                  res |-> try_from(T, a.res.val)]
    /\ UNCHANGED <<a, b, got, text>>

Rendered == text.op # "none" /\ text.res.tag = "Returns"

\* text after the separator: that of the rendered text, the compact text of
\* two corrupted copies of a's uuid, and text that is no compact text
RenderedTail ==
    SubSeq(text.res.val, Len(text.res.val) - ShortLen + 1, Len(text.res.val))

Tails ==
    BadTails \cup
    {RenderedTail,
     short_uuid(flip_bit(a.res.val, 76)), short_uuid(flip_bit(a.res.val, 62))}

ParseCall(T, head, sep, tail) ==
    LET s == head \o sep \o tail
    IN [op |-> "from_str", T |-> T, head |-> head, sep |-> sep, tail |-> tail,
        s |-> s, res |-> from_str(T, s)]

\* text.parse::<Ttid<T>>() of the rendered text, as it was written: its last 22
\* characters, the character before them, and what precedes
ParseRendered ==
    /\ Rendered /\ out.op = "none"
    /\ LET s == text.res.val
           n == Len(s) - ShortLen
       IN \E T \in Domains :
             out' = ParseCall(T, SubSeq(s, 1, n - 1), <<s[n]>>, RenderedTail)
    /\ UNCHANGED <<a, b, got, text>>

\* s.parse::<Ttid<T>>() of a text with a separator
Parse ==
    /\ Rendered /\ out.op = "none"
    /\ \E T \in Domains : \E head \in Heads : \E tail \in Tails :
          out' = ParseCall(T, head, <<"_">>, tail)
    /\ UNCHANGED <<a, b, got, text>>

\* s.parse::<Ttid<T>>() of a text without separator
ParseNoSep ==
    /\ Rendered /\ out.op = "none"
    /\ \E T \in Domains : \E head \in {h \in Heads : \A k \in 1..Len(h) : h[k] # "_"} :
       \E tail \in {<<>>, RenderedTail} :
          out' = ParseCall(T, head, <<>>, tail)
    /\ UNCHANGED <<a, b, got, text>>

\* a second Ttid::<T>::from_parts(ts, ty, r), in the domain of the first
FromPartsB ==
    /\ Constructed(a) /\ a.op = "from_parts"
    /\ b.op = "none" /\ got.op = "none" /\ text.op = "none" /\ out.op = "none"
    /\ \E ty \in Variants(a.T) :
       \E ts \in TimestampInputs : \E r \in RandomInputs :
          b' = PartsCall(a.T, ts, ty, r)
    /\ UNCHANGED <<a, got, text, out>>

Next ==
    \/ FromParts
    \/ New
    \/ Read
    \/ Display
    \/ FromUuid
    \/ TryFrom
    \/ ParseRendered
    \/ Parse
    \/ ParseNoSep

Spec == Init /\ [][Next]_vars

\* two identifiers constructed from parts
NextOrd ==
    \/ FromParts
    \/ FromPartsB

SpecOrd == Init /\ [][NextOrd]_vars

\* Ttid::<T>::from_parts(ts, ty, r), T being any admitted implementation
FromPartsAdmitted ==
    /\ a.op = "none"
    /\ \E T \in AdmittedDomains : \E ty \in Variants(T) :
       \E ts \in TimestampInputs : \E r \in RandomInputs :
          a' = PartsCall(T, ts, ty, r)
    /\ UNCHANGED <<b, got, text, out>>

\* the constructors, the accessors and Display, over the admitted domains
NextAdmitted ==
    \/ FromPartsAdmitted
    \/ New
    \/ Read
    \/ Display
    \/ FromUuid
    \/ TryFrom
    \/ ParseRendered

SpecAdmitted == Init /\ [][NextAdmitted]_vars

(***************************************************************************)
(* Properties.  They are stated on the values the calls were made with and *)
(* on the bytes of the results.                                            *)
(***************************************************************************)
\* bit bit_pos of a uuid, bit 127 being the high bit of its first byte
BitAt(uuid, bit_pos) == (uuid[16 - (bit_pos \div 8)] \div 2^(bit_pos % 8)) % 2

\* the version nibble reads 1000 and the variant bits read 10
ReservedBitsOk(uuid) ==
    /\ <<BitAt(uuid, 79), BitAt(uuid, 78), BitAt(uuid, 77), BitAt(uuid, 76)>> = <<1, 0, 0, 0>>
    /\ <<BitAt(uuid, 63), BitAt(uuid, 62)>> = <<1, 0>>

\* x < y for bit vectors
BitsLess(x, y) == \E i \in y : i \notin x /\ \A j \in x : j > i => j \in y

\* the value is at most 2^n - 1
Below2Pow(x, n) == \A i \in x : i < n

\* x mod 2^n
Mod2Pow(x, n) == {i \in x : i < n}

PartsCalls == {c \in {a, b} : c.op = "from_parts"}

\* C1: from_parts(timestamp_ms, ty, r) with timestamp_ms <= 2^48-1 and
\* r < 2^58 succeeds, and the accessors of the result return the inputs:
\* timestamp_ms() = timestamp_ms, type_id() = ty.to_type_id(), randomness() = r.
C1_RoundTripParts ==
    a.op = "from_parts" /\ Below2Pow(a.timestamp_ms, 48) /\ Below2Pow(a.randomness, 58)
    => /\ a.res.tag = "Ok"
       /\ got.op = "read"
          => /\ got.timestamp_ms = Returns(a.timestamp_ms)
             /\ got.type_id = Returns(to_type_id(a.T, a.ty))
             /\ got.randomness = Returns(a.randomness)

\* the upper boundary of the three fields has been constructed and read back
C1_Witness ==
    /\ a.op = "from_parts" /\ a.res.tag = "Ok"
    /\ a.timestamp_ms = 0..47 /\ a.ty = "Max" /\ a.randomness = 0..57
    /\ got.op = "read" /\ got.type_id = Returns(65535)

\* C2: an identifier constructed by from_parts or new renders to a text, and
\* that text parses, under the same type domain, to an identifier equal to the
\* original, with the same resolved type.
C2_DisplayParseRoundTrip ==
    /\ text.op # "none" => text.res.tag = "Returns"
    /\ out.op = "from_str" /\ out.T = a.T /\ out.s = text.res.val
       => /\ out.res = Ok(a.res.val)
          /\ id_type(out.T, out.res.val) = Returns(a.ty)
          /\ id_type(out.T, out.res.val) = id_type(a.T, a.res.val)

\* a rendered identifier has been parsed back
C2_Witness ==
    /\ a.op = "from_parts" /\ a.ty = "Session"
    /\ out.op = "from_str" /\ out.T = a.T /\ out.s = text.res.val
    /\ out.res.tag = "Ok"

\* the order of two (timestamp, type id, randomness mod 2^58) triples
TripleCmp(x, y) ==
    LET rx == Mod2Pow(x.randomness, 58)
        ry == Mod2Pow(y.randomness, 58)
        ix == to_type_id(x.T, x.ty)
        iy == to_type_id(y.T, y.ty)
    IN IF BitsLess(x.timestamp_ms, y.timestamp_ms) THEN "Less"
       ELSE IF BitsLess(y.timestamp_ms, x.timestamp_ms) THEN "Greater"
       ELSE IF ix < iy THEN "Less"
       ELSE IF ix > iy THEN "Greater"
       ELSE IF BitsLess(rx, ry) THEN "Less"
       ELSE IF BitsLess(ry, rx) THEN "Greater"
       ELSE "Equal"

\* C3: two identifiers made by from_parts in one type domain compare, by the
\* bytes of their 128-bit values, as their triples (timestamp, type id,
\* randomness mod 2^58) compare lexicographically.
C3_OrderIsTripleOrder ==
    Constructed(a) /\ Constructed(b)
    => cmp(a.res.val, b.res.val) = TripleCmp(a, b)

\* the smaller timestamp sorts first against a larger type id and randomness
C3_Witness ==
    /\ Constructed(a) /\ Constructed(b)
    /\ BitsLess(a.timestamp_ms, b.timestamp_ms)
    /\ to_type_id(a.T, a.ty) > to_type_id(b.T, b.ty)
    /\ BitsLess(Mod2Pow(b.randomness, 58), Mod2Pow(a.randomness, 58))
    /\ cmp(a.res.val, b.res.val) = "Less"

\* the identifiers the calls of a state returned
Identifiers ==
    {c.res.val : c \in {c \in {a, b, out} : c.op # "none" /\ c.res.tag = "Ok"}}

\* C4: every identifier a constructor returned (new, from_parts, from_uuid,
\* try_from, parse) has the version nibble 1000 in bits 79..76 and the variant
\* bits 10 in bits 63..62.
C4_ReservedBits == \A uuid \in Identifiers : ReservedBitsOk(uuid)

\* the identifier whose 122 payload bits are all 1: only the five reserved
\* bits that read 0 are 0
C4_Witness ==
    /\ Constructed(a)
    /\ a.res.val = [k \in 1..16 |-> IF k = 7 THEN 143 ELSE IF k = 9 THEN 191 ELSE 255]

\* C5: from_parts fails, with TimestampOutOfRange, exactly when
\* timestamp_ms > 2^48-1, whatever the type and the randomness.
C5_TimestampRange ==
    \A c \in PartsCalls :
        /\ c.res = Err(TimestampOutOfRange) <=> ~Below2Pow(c.timestamp_ms, 48)
        /\ c.res.tag = "Ok" <=> Below2Pow(c.timestamp_ms, 48)

\* timestamp 2^48-1 has constructed and timestamp 2^48 has failed
C5_Witness ==
    /\ a.op = "from_parts" /\ a.timestamp_ms = 0..47 /\ a.res.tag = "Ok"
    /\ b.op = "from_parts" /\ b.timestamp_ms = {48} /\ b.res = Err(TimestampOutOfRange)

\* C6: randomness wider than 58 bits is truncated, never rejected: with a
\* valid timestamp, from_parts(ts, ty, r) succeeds and equals
\* from_parts(ts, ty, r') whenever r' = r mod 2^58; its randomness() is
\* r mod 2^58, and its type id and timestamp are the ones passed.
C6_RandomnessTruncated ==
    /\ \A c \in PartsCalls :
          Below2Pow(c.timestamp_ms, 48) => c.res.tag = "Ok"
    /\ /\ Constructed(a) /\ Constructed(b)
       /\ a.timestamp_ms = b.timestamp_ms /\ a.ty = b.ty
       /\ ~Below2Pow(a.randomness, 58)
       /\ b.randomness = Mod2Pow(a.randomness, 58)
       => /\ a.res = b.res
          /\ randomness(a.res.val) = Returns(b.randomness)
          /\ type_id(a.res.val) = Returns(to_type_id(a.T, a.ty))
          /\ timestamp_ms(a.res.val) = Returns(a.timestamp_ms)

\* randomness 2^58 + 1, whose bit 58 lies where the type id is packed, gives
\* the identifier of randomness 1
C6_Witness ==
    /\ Constructed(a) /\ Constructed(b)
    /\ a.timestamp_ms = b.timestamp_ms /\ a.ty = b.ty /\ a.ty = "Org"
    /\ a.randomness = {58, 0} /\ b.randomness = {0}
    /\ a.res = b.res

WrapCalls == {c \in {out} : c.op \in {"from_uuid", "try_from"}}

\* C7: from_uuid(u) returns Err(InvalidUuid) exactly when the version nibble
\* of u is not 1000 or its variant bits are not 10; a value with wrong
\* reserved bits is never reported as UnknownTypeId.
C7_InvalidUuidIffReservedBits ==
    \A c \in WrapCalls :
        /\ c.res = Err(InvalidUuid) <=> ~ReservedBitsOk(c.uuid)
        /\ ~ReservedBitsOk(c.uuid) => c.res.tag = "Err" /\ c.res.err.kind # "UnknownTypeId"

\* a value with a wrong variant bit and a type id the domain does not know is
\* rejected as InvalidUuid
C7_Witness ==
    /\ Constructed(a) /\ a.T = "MyType" /\ a.ty = "Session"
    /\ out.op = "from_uuid" /\ out.T = "NarrowType"
    /\ out.uuid = flip_bit(a.res.val, 62)
    /\ out.res = Err(InvalidUuid)

\* the 16 bits that follow the 48 timestamp bits in the layout: the low
\* nibble of byte 6, byte 7, and bits 5..2 of byte 8
EmbeddedTypeId(uuid) ==
    (uuid[7] % 16) * 4096 + uuid[8] * 16 + (uuid[9] % 64) \div 4

\* C8: for u with valid reserved bits, from_uuid(u) under domain T returns
\* Err(UnknownTypeId(id)) exactly when T::from_type_id(id) is None, id being
\* the type field of u (the id from_parts wrote), and Ok wrapping u otherwise.
C8_UnknownTypeId ==
    \A c \in WrapCalls :
        ReservedBitsOk(c.uuid)
        => LET id == EmbeddedTypeId(c.uuid) IN
           /\ Constructed(a) /\ c.uuid = a.res.val => id = to_type_id(a.T, a.ty)
           /\ c.res = IF from_type_id(c.T, id).tag = "None"
                      THEN Err(UnknownTypeId(id))
                      ELSE Ok(c.uuid)

\* an identifier of type id 777 is rejected by the narrower domain with that id
C8_Witness ==
    /\ a.op = "from_parts" /\ Constructed(a) /\ a.T = "MyType" /\ a.ty = "Session"
    /\ out.op = "from_uuid" /\ out.T = "NarrowType" /\ out.uuid = a.res.val
    /\ out.res = Err(UnknownTypeId(777))

\* a from_str call on a known type name, the separator, and the compact text
\* of a's uuid, a being an identifier of the domain of the call
PrefixSwapped ==
    /\ out.op = "from_str" /\ out.sep = <<"_">>
    /\ \A k \in 1..Len(out.head) : out.head[k] # "_"
    /\ from_type_name(out.T, out.head).tag = "Some"
    /\ Rendered /\ out.tail = RenderedTail
    /\ from_type_id(out.T, to_type_id(a.T, a.ty)).tag = "Some"

\* C9: parsing a known type name followed by the compact text of a valid
\* identifier of the domain fails with TypeMismatch when the id of the named
\* type differs from the type id in the identifier, and succeeds otherwise.
C9_TypeMismatch ==
    PrefixSwapped
    => out.res = IF to_type_id(out.T, from_type_name(out.T, out.head).val)
                    # to_type_id(a.T, a.ty)
                 THEN Err(TypeMismatch)
                 ELSE Ok(a.res.val)

\* "user_<X>" rewritten to "org_<X>" has failed with TypeMismatch
C9_Witness ==
    /\ PrefixSwapped /\ a.ty = "User" /\ out.head = <<"o", "r", "g">>
    /\ out.res = Err(TypeMismatch)

\* the text before the first "_" of s, s containing one
BeforeFirst(s) ==
    LET n == CHOOSE k \in 0..(Len(s) - 1) :
                 s[k + 1] = "_" /\ \A j \in 1..k : s[j] # "_"
    IN [j \in 1..n |-> s[j]]

\* what the parsed text was built from: no separator at all; a first part no
\* domain type is named by; a rest the codec rejects; a uuid with a wrong
\* reserved bit; a's uuid
HasSeparator(c) == \E k \in 1..Len(c.s) : c.s[k] = "_"
NameKnown(c) == from_type_name(c.T, BeforeFirst(c.s)).tag = "Some"
RestIsCompactText(c) ==
    /\ \A k \in 1..Len(c.head) : c.head[k] # "_"
    /\ c.tail \notin BadTails

\* C10: parse reports the first check that fails, in this order: no "_" ->
\* InvalidFormat; text before the first "_" not a known type name ->
\* UnknownTypeName; text after it rejected by the codec -> InvalidShortUuid;
\* decoded value rejected -> the wrapped InvalidUuid or UnknownTypeId; types
\* disagree -> TypeMismatch; else Ok.
C10_ParseCheckOrder ==
    out.op = "from_str"
    => LET id == to_type_id(a.T, a.ty) IN
       out.res =
         IF ~HasSeparator(out) THEN Err(InvalidFormat)
         ELSE IF ~NameKnown(out) THEN Err(UnknownTypeName)
         ELSE IF ~RestIsCompactText(out) THEN Err(InvalidShortUuid)
         ELSE IF out.tail # RenderedTail THEN Err(Ttid(InvalidUuid))
         ELSE IF from_type_id(out.T, id).tag = "None" THEN Err(Ttid(UnknownTypeId(id)))
         ELSE IF to_type_id(out.T, from_type_name(out.T, out.head).val) # id
              THEN Err(TypeMismatch)
         ELSE Ok(a.res.val)

\* a known name, then "_x_" and valid compact text: the rest after the first
\* "_" is rejected
C10_Witness ==
    /\ out.op = "from_str" /\ out.head = <<"u", "s", "e", "r", "_", "x">>
    /\ Rendered /\ out.tail = RenderedTail
    /\ out.res = Err(InvalidShortUuid)

\* C11: Ttid::new fails with TimestampOutOfRange whenever the clock's
\* milliseconds since the epoch exceed 2^48-1, readings of more than 64 bits
\* included, and never returns an identifier whose timestamp differs from the
\* clock reading.
C11_NewChecksClock ==
    a.op = "new"
    => /\ ~Below2Pow(a.clock_ms, 48) => a.res = Err(TimestampOutOfRange)
       /\ got.op = "read" => got.timestamp_ms = Returns(a.clock_ms)

\* C12: for every type mapping with a total, injective to_type_id and a
\* partial from_type_id, the type id of every identifier a constructor
\* returned resolves under the mapping, T::from_type_id(id.type_id()) is Some,
\* so that id_type() and Display do not panic; from_parts included.
C12_TypeIdResolves ==
    /\ got.op = "read"
       => /\ from_type_id(a.T, got.type_id.val).tag = "Some"
          /\ got.id_type.tag = "Returns"
    /\ text.op # "none" => text.res.tag = "Returns"
    /\ out.op # "none" /\ out.res.tag = "Ok"
       => from_type_id(out.T, EmbeddedTypeId(out.res.val)).tag = "Some"

====
